---- MODULE Spec2Model ----
(***************************************************************************)
(* A model of the BBSKit helpers: the HTML escaper (escapeHTML), the       *)
(* rule-driven username validator (validateUsername), truncate, the        *)
(* in-memory datastore adapter (MemoryAdapter) and passwordStrength.       *)
(*                                                                         *)
(* JavaScript strings are sequences of one-character strings.  A JavaScript*)
(* value is a record [t |-> <typeof>, s |-> <its characters>].             *)
(***************************************************************************)
EXTENDS Integers, Sequences, FiniteSets, TLC

VARIABLES
    component,   \* which helper this behaviour exercises
    input,       \* escapeHTML: the `input` argument of the last/next call
    options,     \* escapeHTML: the `options` argument of the last call
    out,         \* escapeHTML: what the last call returned (or that it threw)
    prev,        \* escapeHTML: what the call before the last one returned
    epc,         \* escapeHTML: position of the caller
    ruleSet,     \* validateUsername: the rule set the callers share
    lastIndex,   \* validateUsername: lastIndex of the rules' RegExp objects
    name,        \* validateUsername: the `username` argument of the last call
    result,      \* validateUsername: what the last call returned (or that it threw)
    calls,       \* validateUsername: the calls of normalize and custom it made
    vpc,         \* validateUsername: position of the caller
    targs,       \* truncate: the arguments of the last/next call
    tout,        \* truncate: what the last call returned
    tpc,         \* truncate: position of the caller
    store,       \* MemoryAdapter: this._m, the Map of the adapter
    before,      \* MemoryAdapter: this._m before the last call
    now,         \* MemoryAdapter: the clock Date.now() reads
    history,     \* MemoryAdapter: the calls made, in order, and what they returned
    pwd,         \* passwordStrength: the `password` argument
    pwdRules,    \* passwordStrength: the `rules` argument of the last call
    strength,    \* passwordStrength: what the last call returned
    ppc          \* passwordStrength: position of the caller

evars == <<input, options, out, prev, epc>>
vvars == <<ruleSet, lastIndex, name, result, calls, vpc>>
tvars == <<targs, tout, tpc>>
avars == <<store, before, now, history>>
pvars == <<pwd, pwdRules, strength, ppc>>
vars == <<component, input, options, out, prev, epc,
          ruleSet, lastIndex, name, result, calls, vpc,
          targs, tout, tpc, store, before, now, history,
          pwd, pwdRules, strength, ppc>>

-----------------------------------------------------------------------------
(* Bounds *)

\* longest run of free characters in a text handed to escapeHTML
MaxLen == 3

\* longest user name handed to validateUsername
MaxNameLen == 3

\* longest text handed to truncate
MaxTextLen == 4

\* most calls made on one MemoryAdapter
MaxOps == 3

\* latest time the clock of the adapter shows before a call
MaxNow == 2

\* longest free part at the start of a password, and longest run of one
\* character after it
MaxHeadLen == 3
MaxPad == 16

-----------------------------------------------------------------------------
(* Characters *)

Digits == {"0", "1", "2", "3", "4", "5", "6", "7", "8", "9"}
LowerLetters == {"a", "b", "c", "d", "e", "f", "g", "h", "i", "j", "k", "l", "m",
                 "n", "o", "p", "q", "r", "s", "t", "u", "v", "w", "x", "y", "z"}
UpperLetters == {"A", "B", "C", "D", "E", "F", "G", "H", "I", "J", "K", "L", "M",
                 "N", "O", "P", "Q", "R", "S", "T", "U", "V", "W", "X", "Y", "Z"}
Letters == LowerLetters \cup UpperLetters
HexDigits == Digits \cup {"a", "b", "c", "d", "e", "f", "A", "B", "C", "D", "E", "F"}
AlphaNum == Letters \cup Digits

\* the characters `.` does not match in a RegExp without the s flag
\* (only the line feed is in the alphabet of the model)
LineTerminators == {"\n", "\r"}

\* the printable ASCII characters in code order, from the space (32) on
\* (position 65 stands for the grave accent, which no text of the model holds)
Ascii == <<
    " ", "!", "\"", "#", "$", "%", "&", "'", "(", ")", "*", "+",
    ",", "-", ".", "/", "0", "1", "2", "3", "4", "5", "6", "7",
    "8", "9", ":", ";", "<", "=", ">", "?", "@", "A", "B", "C",
    "D", "E", "F", "G", "H", "I", "J", "K", "L", "M", "N", "O",
    "P", "Q", "R", "S", "T", "U", "V", "W", "X", "Y", "Z", "[",
    "\\", "]", "^", "_", "backtick", "a", "b", "c", "d", "e", "f", "g",
    "h", "i", "j", "k", "l", "m", "n", "o", "p", "q", "r", "s",
    "t", "u", "v", "w", "x", "y", "z", "{", "|", "}", "~" >>

\* the UTF-16 code unit of a character
CharCode(c) ==
    IF c = "\n" THEN 10
    ELSE IF c = "\r" THEN 13
    ELSE 31 + (CHOOSE i \in DOMAIN Ascii : Ascii[i] = c)

RECURSIVE Concat(_)
\* the concatenation of a sequence of strings
Concat(ss) == IF ss = <<>> THEN <<>> ELSE Head(ss) \o Concat(Tail(ss))

\* the positions of a sequence
Range(f) == {f[i] : i \in DOMAIN f}

-----------------------------------------------------------------------------
(* escapeHTML *)

\* const baseMap = {...}: keys in insertion order, and the entity of each
baseKeys == <<"&", "<", ">", "\"", "'">>
baseMap == [c \in Range(baseKeys) |->
    CASE c = "&" -> <<"&", "a", "m", "p", ";">>
      [] c = "<" -> <<"&", "l", "t", ";">>
      [] c = ">" -> <<"&", "g", "t", ";">>
      [] c = "\"" -> <<"&", "q", "u", "o", "t", ";">>
      [] c = "'" -> <<"&", "#", "3", "9", ";">>]

\* the options of a call that passes none
DefaultOptions == [extra |-> <<>>, exclude |-> <<>>, map |-> <<>>,
                   preventDoubleEscape |-> TRUE]

RECURSIVE Dedup(_)
\* new Set(seq), spread again: first occurrences, in order
Dedup(s) ==
    IF s = <<>> THEN <<>>
    ELSE LET r == Dedup(SubSeq(s, 1, Len(s) - 1))
             x == s[Len(s)]
         IN IF x \in Range(r) THEN r ELSE Append(r, x)

\* the keys of a sequence of <<character, entity>> pairs
PairKeys(m) == [i \in DOMAIN m |-> m[i][1]]

\* const entityMap = { ...baseMap, ...map }: the later entry of a key wins
entityMap(o) ==
    [c \in Range(baseKeys) \cup Range(PairKeys(o.map)) |->
        IF c \in Range(PairKeys(o.map))
        THEN LET i == CHOOSE i \in DOMAIN o.map :
                        /\ o.map[i][1] = c
                        /\ \A j \in DOMAIN o.map : o.map[j][1] = c => j <= i
             IN o.map[i][2]
        ELSE baseMap[c]]

\* Object.keys(entityMap): the base keys, then the new keys of map, in order
entityKeys(o) == Dedup(baseKeys \o PairKeys(o.map))

\* escapeSet with the exclude option ignored
escapeSetAll(o) == Dedup(entityKeys(o) \o Dedup(o.extra))

\* escapeSet: keys and extra, in insertion order, without the excluded ones
escapeSet(o) ==
    SelectSeq(Dedup(entityKeys(o) \o Dedup(o.extra)),
              LAMBDA c : c \notin Range(o.exclude))

\* the characters /[\\^$.*+?()[\]{}|]/ matches
ClassMeta == {"\\", "^", "$", ".", "*", "+", "?", "(", ")", "[", "]", "{", "}", "|"}

\* regexClass: every member, a backslash put before a metacharacter, joined
regexClass(set) ==
    Concat([i \in DOMAIN set |->
        IF set[i] \in ClassMeta THEN <<"\\", set[i]>> ELSE <<set[i]>>])

RECURSIVE ClassAtoms(_)
\* the atoms of a character class source: [ch |-> c, esc |-> was it \c]
ClassAtoms(src) ==
    IF src = <<>> THEN <<>>
    ELSE IF src[1] = "\\" /\ Len(src) >= 2
         THEN <<[ch |-> src[2], esc |-> TRUE]>> \o ClassAtoms(SubSeq(src, 3, Len(src)))
         ELSE <<[ch |-> src[1], esc |-> FALSE]>> \o ClassAtoms(Tail(src))

RECURSIVE ClassRanges(_)
\* the ranges [lo, hi] a sequence of class atoms denotes: atom - atom is a
\* range, a dash that is first or last (or follows a range) is a character
ClassRanges(a) ==
    IF a = <<>> THEN <<>>
    ELSE IF Len(a) >= 3 /\ a[2].ch = "-" /\ ~a[2].esc
         THEN <<[lo |-> a[1].ch, hi |-> a[3].ch]>> \o ClassRanges(SubSeq(a, 4, Len(a)))
         ELSE <<[lo |-> a[1].ch, hi |-> a[1].ch]>> \o ClassRanges(Tail(a))

\* new RegExp(`[${regexClass}]`, "g"): the ranges of the class
pattern(set) == ClassRanges(ClassAtoms(regexClass(set)))

\* new RegExp throws a SyntaxError on a range out of order
patternThrows(p) ==
    \E i \in DOMAIN p : p[i].lo # p[i].hi /\ CharCode(p[i].lo) > CharCode(p[i].hi)

\* the constants of one call: escapeSet, entityMap and pattern
Compiled(o) ==
    LET set == escapeSet(o)
    IN [escapeSet |-> set, entityMap |-> entityMap(o), pattern |-> pattern(set)]

\* whether the class matches ch
patternMatches(c, ch) ==
    \E i \in DOMAIN c.pattern :
        \/ c.pattern[i].lo = ch
        \/ c.pattern[i].hi = ch
        \/ /\ c.pattern[i].lo # c.pattern[i].hi
           /\ CharCode(c.pattern[i].lo) <= CharCode(ch)
           /\ CharCode(ch) <= CharCode(c.pattern[i].hi)

\* m.replace(pattern, (ch) => entityMap[ch] ?? ch) on a one-character m
replaceChar(c, ch) ==
    IF patternMatches(c, ch)
    THEN IF ch \in DOMAIN c.entityMap THEN c.entityMap[ch] ELSE <<ch>>
    ELSE <<ch>>

RECURSIVE RunEnd(_, _, _)
\* the last position of the longest run of characters of S in s from i on
\* (i - 1 when s[i] is not in S): what a greedy S+ takes
RunEnd(s, i, S) ==
    IF i <= Len(s) /\ s[i] \in S THEN RunEnd(s, i + 1, S) ELSE i - 1

\* entityEnd without its third alternative: named references are not known
entityEndNumericOnly(s, i) ==
    LET has(k, c) == k <= Len(s) /\ s[k] = c
        dec == RunEnd(s, i + 2, Digits)
        hex == RunEnd(s, i + 3, HexDigits)
    IN IF ~has(i, "&") THEN 0
       ELSE IF has(i + 1, "#") /\ dec >= i + 2 /\ has(dec + 1, ";") THEN dec + 1
       ELSE IF has(i + 1, "#") /\ has(i + 2, "x") /\ hex >= i + 3 /\ has(hex + 1, ";")
            THEN hex + 1
       ELSE 0

\* /&(#\d+|#x[0-9a-fA-F]+|[a-zA-Z][a-zA-Z0-9]+);/ tried at position i of s:
\* the position of the closing `;`, or 0 when the alternative does not match
entityEnd(s, i) ==
    LET has(k, c) == k <= Len(s) /\ s[k] = c
        dec == RunEnd(s, i + 2, Digits)
        hex == RunEnd(s, i + 3, HexDigits)
        nam == RunEnd(s, i + 2, AlphaNum)
    IN IF ~has(i, "&") THEN 0
       ELSE IF has(i + 1, "#") /\ dec >= i + 2 /\ has(dec + 1, ";") THEN dec + 1
       ELSE IF has(i + 1, "#") /\ has(i + 2, "x") /\ hex >= i + 3 /\ has(hex + 1, ";")
            THEN hex + 1
       ELSE IF i + 1 <= Len(s) /\ s[i + 1] \in Letters /\ nam >= i + 2
               /\ has(nam + 1, ";")
            THEN nam + 1
       ELSE 0

\* scanCallback returning every match that starts with an ampersand as it is
scanCallbackKeepAmp(c, m) ==
    IF m[1] = "&" THEN m
    ELSE Concat([k \in DOMAIN m |-> replaceChar(c, m[k])])

\* the callback of the scanning replace: an entity is returned as it is
scanCallback(c, m) ==
    IF Len(m) > 1 /\ m[1] = "&" /\ m[Len(m)] = ";" THEN m
    ELSE Concat([k \in DOMAIN m |-> replaceChar(c, m[k])])

RECURSIVE scanReplace(_, _, _)
\* input.replace(/&(...);|./g, callback) from position i on: the entity
\* alternative first, then `.`; a character neither matches is copied
scanReplace(c, s, i) ==
    IF i > Len(s) THEN <<>>
    ELSE LET e == entityEnd(s, i)
         IN IF e > 0
            THEN scanCallback(c, SubSeq(s, i, e)) \o scanReplace(c, s, e + 1)
            ELSE IF s[i] \notin LineTerminators
                 THEN scanCallback(c, <<s[i]>>) \o scanReplace(c, s, i + 1)
                 ELSE <<s[i]>> \o scanReplace(c, s, i + 1)

\* a returned string, and a thrown error
Returned(s) == [threw |-> FALSE, s |-> s]
Thrown == [threw |-> TRUE, s |-> <<>>]

\* escapeHTML(input, options), input a JavaScript value
escapeHTML(v, o) ==
    IF v.t # "string" THEN Returned(<<>>)
    ELSE LET c == Compiled(o)
         IN IF c.escapeSet = <<>> THEN Returned(v.s)
            ELSE IF patternThrows(c.pattern) THEN Thrown
            ELSE IF ~o.preventDoubleEscape
                 THEN Returned(Concat([k \in DOMAIN v.s |-> replaceChar(c, v.s[k])]))
                 ELSE Returned(scanReplace(c, v.s, 1))

-----------------------------------------------------------------------------
(* JavaScript built-ins validateUsername calls *)

\* JavaScript values
Str(s) == [t |-> "string", s |-> s]
NonStrings == {[t |-> "number", s |-> <<>>], [t |-> "object", s |-> <<>>],
               [t |-> "undefined", s |-> <<>>]}

RECURSIVE trim(_)
\* String.prototype.trim: the white space at both ends removed
trim(s) ==
    IF s # <<>> /\ s[1] = " " THEN trim(Tail(s))
    ELSE IF s # <<>> /\ s[Len(s)] = " " THEN trim(SubSeq(s, 1, Len(s) - 1))
    ELSE s

(* A RegExp object is [source, astart, body, aend, flags]: `^` if astart,   *)
(* then the elements of body, each a character set taken once or (plus)     *)
(* one or more times, greedily, then `$` if aend.  Its lastIndex is kept in *)
(* the state.                                                               *)

RECURSIVE bodyMatch(_, _, _, _)
RECURSIVE plusMatch(_, _, _, _, _)
\* the backtracking matcher: elements k.. of re at offset pos (0-based) of s;
\* the offset after the match, or -1
bodyMatch(re, k, s, pos) ==
    IF k > Len(re.body)
    THEN IF re.aend /\ pos # Len(s) THEN -1 ELSE pos
    ELSE IF ~(pos < Len(s) /\ s[pos + 1] \in re.body[k].set) THEN -1
    ELSE IF ~re.body[k].plus THEN bodyMatch(re, k + 1, s, pos + 1)
    ELSE LET run == RunEnd(s, pos + 1, re.body[k].set) - pos
         IN plusMatch(re, k, s, pos, run)

\* element k taken n times, then n - 1 times, ... down to once
plusMatch(re, k, s, pos, n) ==
    IF n < 1 THEN -1
    ELSE LET e == bodyMatch(re, k + 1, s, pos + n)
         IN IF e >= 0 THEN e ELSE plusMatch(re, k, s, pos, n - 1)

\* a match that starts exactly at offset pos
matchAt(re, s, pos) ==
    IF re.astart /\ pos # 0 THEN -1 ELSE bodyMatch(re, 1, s, pos)

RECURSIVE regExpExec(_, _, _)
\* RegExpBuiltinExec: the offset after the first match found from offset i
\* on, or -1; a sticky RegExp tries offset i only
regExpExec(re, s, i) ==
    IF i > Len(s) THEN -1
    ELSE LET e == matchAt(re, s, i)
         IN IF e >= 0 THEN e
            ELSE IF re.flags = "y" THEN -1
            ELSE regExpExec(re, s, i + 1)

\* re.test(s) of a RegExp whose lastIndex is li: whether it matched, and the
\* lastIndex it leaves (a RegExp without the g or y flag starts at 0 and
\* leaves lastIndex alone)
regExpTest(re, s, li) ==
    LET stateful == re.flags \in {"g", "y"}
        e == regExpExec(re, s, IF stateful THEN li ELSE 0)
    IN [found |-> e >= 0,
        lastIndex |-> IF ~stateful THEN li ELSE IF e >= 0 THEN e ELSE 0]

-----------------------------------------------------------------------------
(* validateUsername *)

\* a rule that is not given
Absent == [given |-> FALSE]

\* a reason: the string text + arg
Reason(text, arg) == <<text, arg>>

\* const hasExact = (listOrSet, value) => ...: listOrSet is
\* [given, form |-> "array" or "set", items]
hasExact(listOrSet, value) ==
    IF listOrSet.form = "array" THEN value \in Range(listOrSet.items)
    ELSE IF listOrSet.form = "set" THEN value \in Range(listOrSet.items)
    ELSE FALSE

\* the characters /[.*+?^${}()|[\]\\]/ matches
RegExpMeta == {".", "*", "+", "?", "^", "$", "{", "}", "(", ")", "|", "[", "]", "\\"}

\* const escapeRegExp = (s) => s.replace(/[.*+?^${}()|[\]\\]/g, "\\$&")
escapeRegExp(s) ==
    Concat([i \in DOMAIN s |->
        IF s[i] \in RegExpMeta THEN <<"\\", s[i]>> ELSE <<s[i]>>])

\* the characters of the user names
NameAlphabet == {"a", "_", ".", " "}

\* new RegExp(`${src}{2,}`): the atom src, a backslash and a character or a
\* character alone (a bare dot is any character but a line terminator),
\* taken twice or more
consecutiveRegExp(src) ==
    LET set == IF src[1] = "\\" THEN {src[2]}
               ELSE IF src[1] = "." THEN NameAlphabet \ LineTerminators
               ELSE {src[1]}
    IN [source |-> "{2,}", astart |-> FALSE, aend |-> FALSE, flags |-> "",
        body |-> <<[set |-> set, plus |-> FALSE], [set |-> set, plus |-> TRUE]>>]

\* normalized with the transform left out: the checks see the raw input
normalizedSkipped(username, rules) == username

\* let value = normalize ? normalize(username) : username (when normalize
\* returns); normalize is "none", "trim" (s => s.trim()) or "throws"
normalized(username, rules) ==
    IF rules.normalize = "trim" THEN trim(username) ELSE username

\* the calls of normalize the statement makes
normalizeCalls(username, rules) ==
    IF rules.normalize # "none" THEN << <<"normalize", username>> >> ELSE <<>>

\* whitelisted, with the blacklist looked at first
whitelistedUnlessBlacklisted(rules, value) ==
    /\ rules.whitelist.given /\ hasExact(rules.whitelist, value)
    /\ ~(rules.blacklist.given /\ hasExact(rules.blacklist, value))

\* if (whitelist && hasExact(whitelist, value))
whitelisted(rules, value) == rules.whitelist.given /\ hasExact(rules.whitelist, value)

\* the two length checks
lengthReasons(rules, value) ==
    (IF Len(value) < rules.min THEN <<Reason("too_short", "")>> ELSE <<>>)
    \o (IF Len(value) > rules.max THEN <<Reason("too_long", "")>> ELSE <<>>)

\* if (re && !re.test(value)) reasons.push(text), for allowed, startsWith, endsWith
patternReason(re, value, li, text) ==
    IF re.given /\ ~regExpTest(re, value, li).found THEN <<Reason(text, "")>> ELSE <<>>

\* the lastIndex a rule's RegExp is left with
patternLastIndex(re, value, li) ==
    IF re.given THEN regExpTest(re, value, li).lastIndex ELSE li

\* for (const re of disallow) if (re.test(value)) reasons.push(...)
disallowReasons(rules, value, li) ==
    Concat([i \in DOMAIN rules.disallow |->
        IF regExpTest(rules.disallow[i], value, li[i]).found
        THEN <<Reason("disallowed_pattern:", rules.disallow[i].source)>> ELSE <<>>])

\* if (noConsecutive && noConsecutive.length > 0) for (const ch of noConsecutive) ...
\* (a Set has no length: undefined > 0 is false)
consecutiveReasons(rules, value) ==
    IF rules.noConsecutive.given /\ rules.noConsecutive.form = "array"
       /\ Len(rules.noConsecutive.items) > 0
    THEN Concat([i \in DOMAIN rules.noConsecutive.items |->
            LET ch == rules.noConsecutive.items[i]
                re == consecutiveRegExp(escapeRegExp(<<ch>>))
            IN IF regExpTest(re, value, 0).found
               THEN <<Reason("consecutive:", ch)>> ELSE <<>>])
    ELSE <<>>

\* if (blacklist && hasExact(blacklist, value)) reasons.push("blacklisted")
blacklistReasons(rules, value) ==
    IF rules.blacklist.given /\ hasExact(rules.blacklist, value)
    THEN <<Reason("blacklisted", "")>> ELSE <<>>

\* fn(value) for a custom validator fn: what it returns, or that it throws
customCall(fn, value) ==
    CASE fn.kind = "reserved" ->
             IF value = fn.word
             THEN [threw |-> FALSE, t |-> "string", text |-> "reserved"]
             ELSE [threw |-> FALSE, t |-> "undefined", text |-> ""]
      [] fn.kind = "fails" -> [threw |-> FALSE, t |-> "string", text |-> "custom_failed"]
      [] fn.kind = "empty" -> [threw |-> FALSE, t |-> "string", text |-> ""]
      [] fn.kind = "false" -> [threw |-> FALSE, t |-> "boolean", text |-> ""]
      [] fn.kind = "throws" -> [threw |-> TRUE, t |-> "undefined", text |-> ""]

\* the body of the loop over custom, for one fn
customReason(fn, value) ==
    LET res == customCall(fn, value)
    IN IF res.threw THEN <<Reason("custom_validator_error", "")>>
       ELSE IF res.t = "string" /\ res.text # "" THEN <<Reason(res.text, "")>>
       ELSE <<>>

\* for (const fn of custom) { try ... catch ... }
customReasons(rules, value) ==
    Concat([i \in DOMAIN rules.custom |-> customReason(rules.custom[i], value)])

\* the calls of custom validators the loop makes
customCalls(rules, value) == [i \in DOMAIN rules.custom |-> <<"custom", i, value>>]

\* the lastIndex of the rules' RegExp objects: [allowed, startsWith, endsWith, disallow]
FreshLastIndex(disallow) ==
    [allowed |-> 0, startsWith |-> 0, endsWith |-> 0,
     disallow |-> [i \in DOMAIN disallow |-> 0]]

\* okOf with the comparison off by one
okOfOneReason(reasons) == Len(reasons) <= 1

\* ok: reasons.length === 0
okOf(reasons) == Len(reasons) = 0

\* what a call leaves: the result returned (or that it threw), the calls of
\* caller-supplied functions it made, and the lastIndex of the RegExp objects
Outcome(threw, ok, reasons, value, made, li) ==
    [threw |-> threw, ok |-> ok, reasons |-> reasons, value |-> value,
     calls |-> made, lastIndex |-> li]

\* validateUsername(username, rules), the rules' RegExp objects at lastIndex li
validateUsername(username, rules, li) ==
    IF username.t # "string"
    THEN Outcome(FALSE, FALSE, <<Reason("not_a_string", "")>>, <<>>, <<>>, li)
    ELSE IF rules.normalize = "throws"
    THEN Outcome(TRUE, FALSE, <<>>, <<>>, normalizeCalls(username.s, rules), li)
    ELSE LET value == normalized(username.s, rules)
             ncalls == normalizeCalls(username.s, rules)
         IN IF whitelisted(rules, value)
            THEN Outcome(FALSE, TRUE, <<>>, value, ncalls, li)
            ELSE LET reasons ==
                         lengthReasons(rules, value)
                         \o patternReason(rules.allowed, value, li.allowed, "invalid_chars")
                         \o patternReason(rules.startsWith, value, li.startsWith, "bad_start")
                         \o patternReason(rules.endsWith, value, li.endsWith, "bad_end")
                         \o disallowReasons(rules, value, li.disallow)
                         \o consecutiveReasons(rules, value)
                         \o blacklistReasons(rules, value)
                         \o customReasons(rules, value)
                     li2 == [allowed |-> patternLastIndex(rules.allowed, value, li.allowed),
                             startsWith |-> patternLastIndex(rules.startsWith, value, li.startsWith),
                             endsWith |-> patternLastIndex(rules.endsWith, value, li.endsWith),
                             disallow |-> [i \in DOMAIN rules.disallow |->
                                 regExpTest(rules.disallow[i], value, li.disallow[i]).lastIndex]]
                 IN Outcome(FALSE, okOf(reasons), reasons, value,
                            ncalls \o customCalls(rules, value), li2)

-----------------------------------------------------------------------------
(* The callers of escapeHTML *)

\* the characters of the texts: what an entity reference is made of, the
\* characters of the default escape set, and a line terminator
EscAlphabet == {"&", "#", "x", "X", "4", ";", "<", ">", "\"", "'", "\n"}

\* the texts: up to MaxLen characters, alone or after the opener of a
\* numeric character reference
EscTexts ==
    LET free == UNION {[1..n -> EscAlphabet] : n \in 0..MaxLen}
    IN free \cup {<<"&", "#">> \o s : s \in free}

\* the option objects the callers pass
EscOptionSets ==
    LET variants == {
            DefaultOptions,
            [DefaultOptions EXCEPT !.extra = <<"\n">>,
                                   !.map = << <<"\n", <<"&", "#", "1", "0", ";">> >> >>],
            [DefaultOptions EXCEPT !.extra = <<"x">>,
                                   !.map = << <<"<", <<"&", "#", "6", "0", ";">> >>,
                                              <<"x", <<"&", "#", "1", "2", "0", ";">> >> >>],
            [DefaultOptions EXCEPT !.extra = <<";">>],
            [DefaultOptions EXCEPT !.exclude = <<"<", "&", ">", "\"", "'">>],
            [DefaultOptions EXCEPT !.exclude = <<"<", "&", ">", "\"", "'">>,
                                   !.extra = <<"x">>],
            [DefaultOptions EXCEPT !.exclude = <<"<", "&", ">", "\"", "'", ";">>,
                                   !.extra = <<";", "&">>,
                                   !.map = << <<";", <<"&", "#", "5", "9", ";">> >> >>],
            [DefaultOptions EXCEPT !.exclude = <<"&">>],
            [DefaultOptions EXCEPT !.extra = <<"-", "!">>] }
    IN variants \cup {[o EXCEPT !.preventDoubleEscape = FALSE] : o \in variants}

\* the rule set of a behaviour that makes no validateUsername call
NoRules == [bounds |-> <<1, 64>>, flags |-> "absent", lists |-> "absent",
            normalize |-> "none", custom |-> "none"]

\* the result before any call
NoResult == [threw |-> FALSE, ok |-> FALSE, reasons |-> <<>>, value |-> <<>>]

\* the state of the helper a behaviour does not exercise
EscapeIdle ==
    /\ input = Str(<<>>)
    /\ options = DefaultOptions
    /\ out = Returned(<<>>)
    /\ prev = Returned(<<>>)
    /\ epc = "off"

ValidateIdle ==
    /\ ruleSet = NoRules
    /\ lastIndex = FreshLastIndex(<<>>)
    /\ name = Str(<<>>)
    /\ result = NoResult
    /\ calls = <<>>
    /\ vpc = "off"

TruncateIdle ==
    /\ targs = [text |-> Str(<<>>), length |-> 0,
                options |-> [wordSafe |-> FALSE, ellipsis |-> <<>>]]
    /\ tout = <<>>
    /\ tpc = "off"

AdapterIdle ==
    /\ store = <<>>
    /\ before = <<>>
    /\ now = 0
    /\ history = <<>>

StrengthIdle ==
    /\ pwd = Str(<<>>)
    /\ pwdRules = <<>>
    /\ strength = <<>>
    /\ ppc = "off"

InitEscape ==
    /\ component = "escaper"
    /\ input \in {Str(s) : s \in EscTexts} \cup NonStrings
    /\ options = DefaultOptions
    /\ out = Returned(<<>>)
    /\ prev = Returned(<<>>)
    /\ epc = "ready"
    /\ ValidateIdle /\ TruncateIdle /\ AdapterIdle /\ StrengthIdle

\* escapeHTML(input, o)
Escape(o) ==
    /\ component = "escaper"
    /\ epc = "ready"
    /\ options' = o
    /\ out' = escapeHTML(input, o)
    /\ epc' = "escaped"
    /\ UNCHANGED <<component, input, prev>>
    /\ UNCHANGED <<vvars, tvars, avars, pvars>>

\* createEscaper(options) applied to its own result: escaper(escaper(input))
EscapeAgain ==
    /\ component = "escaper"
    /\ epc = "escaped"
    /\ ~out.threw
    /\ input' = Str(out.s)
    /\ prev' = out
    /\ out' = escapeHTML(Str(out.s), options)
    /\ epc' = "again"
    /\ UNCHANGED <<component, options>>
    /\ UNCHANGED <<vvars, tvars, avars, pvars>>

NextEscape ==
    \/ \E o \in EscOptionSets : Escape(o)
    \/ EscapeAgain

SpecEscape == InitEscape /\ [][NextEscape]_vars

-----------------------------------------------------------------------------
(* The callers of validateUsername *)

\* the RegExp objects of the rule sets, with the flags f
AllowedRe(f) ==
    [given |-> TRUE, source |-> "^[a-z_]+$", astart |-> TRUE, aend |-> TRUE,
     flags |-> f, body |-> <<[set |-> {"a", "_"}, plus |-> TRUE]>>]
StartsWithRe(f) ==
    [given |-> TRUE, source |-> "^[a-z]", astart |-> TRUE, aend |-> FALSE,
     flags |-> f, body |-> <<[set |-> {"a"}, plus |-> FALSE]>>]
EndsWithRe(f) ==
    [given |-> TRUE, source |-> "[a-z]$", astart |-> FALSE, aend |-> TRUE,
     flags |-> f, body |-> <<[set |-> {"a"}, plus |-> FALSE]>>]
DisallowRes(f) ==
    <<[given |-> TRUE, source |-> "a_", astart |-> FALSE, aend |-> FALSE,
       flags |-> f, body |-> <<[set |-> {"a"}, plus |-> FALSE],
                               [set |-> {"_"}, plus |-> FALSE]>>],
      [given |-> TRUE, source |-> "\\.", astart |-> FALSE, aend |-> FALSE,
       flags |-> f, body |-> <<[set |-> {"."}, plus |-> FALSE]>>]>>

\* an array and a Set of strings
ArrayOf(items) == [given |-> TRUE, form |-> "array", items |-> items]
SetOf(items) == [given |-> TRUE, form |-> "set", items |-> items]

\* custom validators
Reserved(word) == [kind |-> "reserved", word |-> word]
Fn(kind) == [kind |-> kind, word |-> <<>>]

\* the flags of the RegExp rules in a rule object whose RegExp rules are
\* written d.flags: "" (none has a flag), "g" (allowed and the disallow
\* patterns are global) or "y" (startsWith and endsWith are sticky)
FlagsOf(d, rule) ==
    IF d.flags = "g" /\ rule \in {"allowed", "disallow"} THEN "g"
    ELSE IF d.flags = "y" /\ rule \in {"startsWith", "endsWith"} THEN "y"
    ELSE ""

\* the rule object written as d = [bounds, flags, lists, normalize, custom]:
\* min and max, the RegExp rules (absent, or with their flags), the list
\* rules (absent, arrays or Sets), normalize, and the custom validators
RulesOf(d) ==
    [min |-> d.bounds[1], max |-> d.bounds[2],
     allowed |-> IF d.flags = "absent" THEN Absent
                 ELSE AllowedRe(FlagsOf(d, "allowed")),
     startsWith |-> IF d.flags = "absent" THEN Absent
                    ELSE StartsWithRe(FlagsOf(d, "startsWith")),
     endsWith |-> IF d.flags = "absent" THEN Absent
                  ELSE EndsWithRe(FlagsOf(d, "endsWith")),
     disallow |-> IF d.flags = "absent" THEN <<>>
                  ELSE DisallowRes(FlagsOf(d, "disallow")),
     blacklist |-> IF d.lists = "absent" THEN Absent
                   ELSE IF d.lists = "array" THEN ArrayOf(<< <<"_", "_">>, <<"a">> >>)
                   ELSE SetOf(<< <<"_", "_">>, <<"a">> >>),
     whitelist |-> IF d.lists = "absent" THEN Absent
                   ELSE IF d.lists = "array" THEN ArrayOf(<< <<"_", "_">>, <<".">> >>)
                   ELSE SetOf(<< <<"_", "_">>, <<".">> >>),
     noConsecutive |-> IF d.lists = "absent" THEN Absent
                       ELSE IF d.lists = "array" THEN ArrayOf(<<"_", ".">>)
                       ELSE SetOf(<<"_", ".">>),
     normalize |-> d.normalize,
     custom |-> IF d.custom = "none" THEN <<>>
                ELSE IF d.custom = "throwing"
                THEN <<Reserved(<<"a">>), Fn("throws"), Fn("fails")>>
                ELSE <<Fn("empty"), Fn("false"), Reserved(<<"_", "_">>)>>]

\* the rule sets the callers pass: every combination of rules whose RegExp
\* objects carry no flag, and rule sets whose RegExp objects carry one
RuleSets ==
    [bounds : {<<1, 64>>, <<3, 1>>},
     flags : {"absent", ""},
     lists : {"absent", "array", "set"},
     normalize : {"none", "trim", "throws"},
     custom : {"none", "throwing", "passing"}]
    \cup
    [bounds : {<<1, 64>>},
     flags : {"g", "y"},
     lists : {"array"},
     normalize : {"none", "trim"},
     custom : {"none"}]

\* the user names: strings of up to MaxNameLen characters, and other values
Usernames ==
    {Str(s) : s \in UNION {[1..n -> NameAlphabet] : n \in 0..MaxNameLen}}
        \cup NonStrings

InitValidate ==
    /\ component = "validator"
    /\ ruleSet \in RuleSets
    /\ lastIndex = FreshLastIndex(RulesOf(ruleSet).disallow)
    /\ name = Str(<<>>)
    /\ result = NoResult
    /\ calls = <<>>
    /\ vpc = "idle"
    /\ EscapeIdle /\ TruncateIdle /\ AdapterIdle /\ StrengthIdle

\* a caller takes the next user name to validate
Pick(u) ==
    /\ component = "validator"
    /\ vpc = "idle"
    /\ name' = u
    /\ vpc' = "calling"
    /\ UNCHANGED <<component, ruleSet, lastIndex, result, calls>>
    /\ UNCHANGED <<evars, tvars, avars, pvars>>

\* what the call validateUsername(name, ruleSet) does to the state
Call ==
    LET o == validateUsername(name, RulesOf(ruleSet), lastIndex)
    IN /\ result' = [threw |-> o.threw, ok |-> o.ok, reasons |-> o.reasons,
                     value |-> o.value]
       /\ calls' = o.calls
       /\ lastIndex' = o.lastIndex
       /\ vpc' = IF o.threw THEN "threw" ELSE "returned"
       /\ UNCHANGED <<component, ruleSet, name>>
       /\ UNCHANGED <<evars, tvars, avars, pvars>>

\* validateUsername(name, ruleSet)
Validate ==
    /\ component = "validator"
    /\ vpc = "calling"
    /\ Call

\* createUsernameValidator(ruleSet)(name)
CallValidator ==
    /\ component = "validator"
    /\ vpc = "calling"
    /\ Call

\* the caller is done with the result (or with the error it caught)
Done ==
    /\ component = "validator"
    /\ vpc \in {"returned", "threw"}
    /\ name' = Str(<<>>)
    /\ result' = NoResult
    /\ calls' = <<>>
    /\ vpc' = "idle"
    /\ UNCHANGED <<component, ruleSet, lastIndex>>
    /\ UNCHANGED <<evars, tvars, avars, pvars>>

NextValidate ==
    \/ \E u \in Usernames : Pick(u)
    \/ Validate
    \/ CallValidator
    \/ Done

SpecValidate == InitValidate /\ [][NextValidate]_vars

-----------------------------------------------------------------------------
(* truncate *)

\* const { wordSafe = false, ellipsis = '...' } = options
DefaultTruncateOptions == [wordSafe |-> FALSE, ellipsis |-> <<".", ".", ".">>]

\* the characters trimEnd removes
WhiteSpace == {" ", "\t", "\n", "\r"}

\* s.slice(0, end), 0 <= end
slice(s, end) == SubSeq(s, 1, IF end < Len(s) THEN end ELSE Len(s))

\* s.lastIndexOf(ch): the index from 0 of the last ch of s, or -1
lastIndexOf(s, ch) ==
    LET at == {i \in DOMAIN s : s[i] = ch}
    IN IF at = {} THEN -1 ELSE (CHOOSE i \in at : \A j \in at : j <= i) - 1

RECURSIVE trimEnd(_)
\* s.trimEnd()
trimEnd(s) ==
    IF s # <<>> /\ s[Len(s)] \in WhiteSpace
    THEN trimEnd(SubSeq(s, 1, Len(s) - 1))
    ELSE s

\* fits with the length itself left out
fitsBelow(text, length) == Len(text) < length

\* text.length <= length
fits(text, length) == Len(text) <= length

\* truncate(text, length, options), text a JavaScript value
truncate(text, length, opts) ==
    IF text.t # "string" THEN <<>>
    ELSE IF length <= 0 THEN <<>>
    ELSE IF fits(text.s, length) THEN text.s
    ELSE LET truncated == slice(text.s, length)
             lastSpace == lastIndexOf(truncated, " ")
             backed == IF opts.wordSafe /\ lastSpace > 0
                       THEN slice(truncated, lastSpace)
                       ELSE truncated
         IN trimEnd(backed) \o opts.ellipsis

\* the characters of the texts: a letter, the space, another white space
TextAlphabet == {"a", " ", "\n"}

\* the texts: strings of up to MaxTextLen characters, and other values
Texts ==
    {Str(s) : s \in UNION {[1..n -> TextAlphabet] : n \in 0..MaxTextLen}}
        \cup NonStrings

\* the lengths asked for: negative, zero, up to past the longest text
Lengths == -1..(MaxTextLen + 1)

\* the options objects: none, and wordSafe with ellipsis strings
TruncateOptions ==
    {DefaultTruncateOptions}
        \cup [wordSafe : BOOLEAN, ellipsis : {<<".", ".", ".">>, <<>>, <<">">>}]

InitTruncate ==
    /\ component = "truncate"
    /\ targs \in [text : Texts, length : {0}, options : {DefaultTruncateOptions}]
    /\ tout = <<>>
    /\ tpc = "ready"
    /\ EscapeIdle /\ ValidateIdle /\ AdapterIdle /\ StrengthIdle

\* truncate(text, length, opts)
Truncate(length, opts) ==
    /\ component = "truncate"
    /\ tpc = "ready"
    /\ targs' = [targs EXCEPT !.length = length, !.options = opts]
    /\ tout' = truncate(targs.text, length, opts)
    /\ tpc' = "done"
    /\ UNCHANGED <<component, evars, vvars, avars, pvars>>

NextTruncate == \E length \in Lengths, opts \in TruncateOptions : Truncate(length, opts)

SpecTruncate == InitTruncate /\ [][NextTruncate]_vars

-----------------------------------------------------------------------------
(* MemoryAdapter *)

\* JavaScript values the adapter stores and returns: undefined, null,
\* booleans, numbers, and the objects { v, e } the DataStore wraps values in
Undefined == [t |-> "undefined"]
Null == [t |-> "null"]
Bool(b) == [t |-> "boolean", b |-> b]
Num(n) == [t |-> "number", n |-> n]
Wrapped(v, e) == [t |-> "object", v |-> v, e |-> e]

\* the entry of a key this._m does not hold
Missing == [t |-> "missing"]

\* the keys used, and the Map of a new adapter
Keys == {"k", "j"}
EmptyMap == [k \in Keys |-> Missing]

\* this._m.get(key)
mapGet(map, key) == IF map[key] = Missing THEN Undefined ELSE map[key]

\* this._m.set(key, value)
mapSet(map, key, value) == [map EXCEPT ![key] = value]

RECURSIVE mapSetAll(_, _)
\* for (const [k, v] of entries) this._m.set(k, v)
mapSetAll(map, entries) ==
    IF entries = <<>> THEN map
    ELSE mapSetAll(mapSet(map, entries[1][1], entries[1][2]), Tail(entries))

\* curr?.v ?? 0: only an object has a property v
currVal(curr) ==
    IF curr.t = "object" /\ curr.v.t \notin {"undefined", "null"} THEN curr.v
    ELSE Num(0)

\* next computed from the delta alone
nextFromDelta(curr, delta) == delta

\* const next = Number(currVal) + Number(delta)
next(curr, delta) == currVal(curr).n + delta

\* const ttl = curr?.e != null ? (curr.e - Date.now()) : null, the clock
\* showing now1
ttl(curr, now1) ==
    IF curr.t = "object" /\ curr.e.t \notin {"undefined", "null"}
    THEN Num(curr.e.n - now1)
    ELSE Null

\* const wrapped = { v: next, e: ttl == null ? null : Date.now() + ttl },
\* the clock showing now1 at the first read and now2 at the second
wrapped(curr, delta, now1, now2) ==
    LET life == ttl(curr, now1)
    IN Wrapped(Num(next(curr, delta)),
               IF life = Null THEN Null ELSE Num(now2 + life.n))

\* a call and what its promise resolves to
Made(op, key, arg, ret) == [op |-> op, key |-> key, arg |-> arg, ret |-> ret]

\* the values callers store: a bare number, a wrapped number that does not
\* expire, a wrapped number that expires after the clock's range
StoredValues == {Num(5), Wrapped(Num(5), Null), Wrapped(Num(5), Num(MaxNow + 1))}

\* the deltas callers pass to incr (1 is the default)
Deltas == {1, 2}

\* the entry lists callers pass to mset
EntryLists == { << <<"j", Wrapped(Num(2), Null)>> >>,
                << <<"k", Wrapped(Num(1), Null)>>, <<"j", Num(3)>> >> }

InitAdapter ==
    /\ component = "adapter"
    /\ store = EmptyMap
    /\ before = EmptyMap
    /\ now = 0
    /\ history = <<>>
    /\ EscapeIdle /\ ValidateIdle /\ TruncateIdle /\ StrengthIdle

\* what every call of an adapter method does besides its own effect
Record(op, key, arg, ret) ==
    /\ component = "adapter"
    /\ Len(history) < MaxOps
    /\ before' = store
    /\ history' = Append(history, Made(op, key, arg, ret))
    /\ UNCHANGED <<component, evars, vvars, tvars, pvars>>

\* async get(key)
Get(key) ==
    /\ Record("get", key, Undefined, mapGet(store, key))
    /\ UNCHANGED <<store, now>>

\* async set(key, value)
Set(key, value) ==
    /\ Record("set", key, value, Undefined)
    /\ store' = mapSet(store, key, value)
    /\ UNCHANGED now

\* async delete(key)
Delete(key) ==
    /\ Record("delete", key, Undefined, Bool(store[key] # Missing))
    /\ store' = [store EXCEPT ![key] = Missing]
    /\ UNCHANGED now

\* async clear()
Clear ==
    /\ Record("clear", "", Undefined, Undefined)
    /\ store' = EmptyMap
    /\ UNCHANGED now

\* async mset(entries)
Mset(entries) ==
    /\ Record("mset", "", entries, Undefined)
    /\ store' = mapSetAll(store, entries)
    /\ UNCHANGED now

\* async incr(key, delta): the body runs to its end within the call; the
\* clock may advance by d between its two Date.now() reads
Incr(key, delta, d) ==
    /\ now + d <= MaxNow
    /\ LET curr == mapGet(store, key)
       IN /\ Record("incr", key, Num(delta), Num(next(curr, delta)))
          /\ store' = mapSet(store, key, wrapped(curr, delta, now, now + d))
    /\ now' = now + d

\* time passes between two calls
Tick ==
    /\ component = "adapter"
    /\ now < MaxNow
    /\ now' = now + 1
    /\ UNCHANGED <<component, store, before, history, evars, vvars, tvars, pvars>>

NextAdapter ==
    \/ \E key \in Keys : Get(key)
    \/ \E key \in Keys, value \in StoredValues : Set(key, value)
    \/ \E key \in Keys : Delete(key)
    \/ Clear
    \/ \E entries \in EntryLists : Mset(entries)
    \/ \E key \in Keys, delta \in Deltas, d \in 0..1 : Incr(key, delta, d)
    \/ Tick

SpecAdapter == InitAdapter /\ [][NextAdapter]_vars

-----------------------------------------------------------------------------
(* passwordStrength *)

\* const { minLength = 8, maxLength = 128, requireLowercase = true, ... } = rules
DefaultStrengthRules ==
    [minLength |-> 8, maxLength |-> 128, requireLowercase |-> TRUE,
     requireUppercase |-> TRUE, requireNumber |-> TRUE, requireSymbol |-> TRUE]

\* /[a-z]/.test, /[A-Z]/.test, /\d/.test, /[^A-Za-z0-9]/.test
hasLower(password) == \E i \in DOMAIN password : password[i] \in LowerLetters
hasUpper(password) == \E i \in DOMAIN password : password[i] \in UpperLetters
hasNumber(password) == \E i \in DOMAIN password : password[i] \in Digits
hasSymbol(password) == \E i \in DOMAIN password : password[i] \notin AlphaNum

\* the reasons pushed, in order
strengthReasons(password, rules) ==
    LET when(cond, text) == IF cond THEN <<text>> ELSE <<>>
    IN when(Len(password) < rules.minLength, "too_short")
       \o when(Len(password) > rules.maxLength, "too_long")
       \o when(rules.requireLowercase /\ ~hasLower(password), "missing_lowercase")
       \o when(rules.requireUppercase /\ ~hasUpper(password), "missing_uppercase")
       \o when(rules.requireNumber /\ ~hasNumber(password), "missing_number")
       \o when(rules.requireSymbol /\ ~hasSymbol(password), "missing_symbol")

\* score before the cap: one for each class present, and the length bonuses
rawScore(password) ==
    LET one(cond) == IF cond THEN 1 ELSE 0
    IN one(hasLower(password)) + one(hasUpper(password))
       + one(hasNumber(password)) + one(hasSymbol(password))
       + one(Len(password) >= 12) + one(Len(password) >= 16)

\* the score left as it is
uncapped(score) == score

\* score = Math.min(score, 4)
capped(score) == IF score < 4 THEN score ELSE 4

\* const labels = [...]
labels == <<"weak", "fair", "good", "strong", "very_strong">>

\* labels[score], undefined past the end, then the override of the label
labelOf(password, rules, score) ==
    IF Len(password) < rules.minLength \/ Len(password) > rules.maxLength
    THEN "weak"
    ELSE IF score + 1 \in DOMAIN labels THEN labels[score + 1] ELSE "undefined"

\* passwordStrength(password, rules), password a JavaScript value
passwordStrength(password, rules) ==
    IF password.t # "string"
    THEN [score |-> 0, label |-> "invalid", reasons |-> <<"not_a_string">>]
    ELSE LET score == capped(rawScore(password.s))
         IN [score |-> score,
             label |-> labelOf(password.s, rules, score),
             reasons |-> strengthReasons(password.s, rules)]

\* the characters of the passwords: one of each class
PwdAlphabet == {"a", "A", "1", "!"}

\* the passwords: a free start of up to MaxHeadLen characters, then up to
\* MaxPad times one character; and values that are not strings
Passwords ==
    {Str(head \o [i \in 1..n |-> c]) :
        head \in UNION {[1..l -> PwdAlphabet] : l \in 0..MaxHeadLen},
        c \in PwdAlphabet, n \in 0..MaxPad}
        \cup NonStrings

\* the rules objects: none, and bounds with every or no class required
StrengthRules ==
    {DefaultStrengthRules}
        \cup {[minLength |-> b[1], maxLength |-> b[2], requireLowercase |-> r,
               requireUppercase |-> r, requireNumber |-> r, requireSymbol |-> r] :
                b \in {<<0, 128>>, <<17, 128>>, <<2, 10>>}, r \in BOOLEAN}

InitStrength ==
    /\ component = "strength"
    /\ pwd \in Passwords
    /\ pwdRules = <<>>
    /\ strength = <<>>
    /\ ppc = "ready"
    /\ EscapeIdle /\ ValidateIdle /\ TruncateIdle /\ AdapterIdle

\* passwordStrength(pwd, rules)
Strength(rules) ==
    /\ component = "strength"
    /\ ppc = "ready"
    /\ pwdRules' = rules
    /\ strength' = passwordStrength(pwd, rules)
    /\ ppc' = "done"
    /\ UNCHANGED <<component, pwd, evars, vvars, tvars, avars>>

NextStrength == \E rules \in StrengthRules : Strength(rules)

SpecStrength == InitStrength /\ [][NextStrength]_vars

-----------------------------------------------------------------------------
Init == InitEscape \/ InitValidate \/ InitTruncate \/ InitAdapter \/ InitStrength

Next == NextEscape \/ NextValidate \/ NextTruncate \/ NextAdapter \/ NextStrength

Spec == Init /\ [][Next]_vars

-----------------------------------------------------------------------------
(* Properties of escapeHTML *)

\* C1: escaping is idempotent under double-escape prevention: with the
\* default options, escapeHTML applied to its own result returns it unchanged.
C1_Idempotent ==
    (epc = "again" /\ options = DefaultOptions) => out = prev

\* the text "&#4;&" was escaped to "&#4;&amp;" and that was escaped again
C1_Witness ==
    /\ epc = "again"
    /\ options = DefaultOptions
    /\ prev = Returned(<<"&", "#", "4", ";", "&", "a", "m", "p", ";">>)

\* an entity reference as the specification words it, tried at position i of
\* s: `&`, then `#` and digits, or `#x` or `#X` and hex digits, or a letter and
\* alphanumerics, then `;`.  The position of the `;`, or 0.
ReferenceEnd(s, i) ==
    LET has(k, c) == k <= Len(s) /\ s[k] = c
        dec == RunEnd(s, i + 2, Digits)
        hex == RunEnd(s, i + 3, HexDigits)
        nam == RunEnd(s, i + 2, AlphaNum)
    IN IF ~has(i, "&") THEN 0
       ELSE IF has(i + 1, "#") /\ dec >= i + 2 /\ has(dec + 1, ";") THEN dec + 1
       ELSE IF has(i + 1, "#") /\ (has(i + 2, "x") \/ has(i + 2, "X"))
               /\ hex >= i + 3 /\ has(hex + 1, ";")
            THEN hex + 1
       ELSE IF i + 1 <= Len(s) /\ s[i + 1] \in Letters /\ nam >= i + 2
               /\ has(nam + 1, ";")
            THEN nam + 1
       ELSE 0

\* a call with preventDoubleEscape that returned
EscapedPreventing ==
    /\ epc = "escaped"
    /\ input.t = "string"
    /\ options.preventDoubleEscape
    /\ ~out.threw

\* C4: with preventDoubleEscape, every entity reference of the input (a
\* decimal, a lower- or upper-case-x hexadecimal or a named one) is copied
\* to the output verbatim: the output is the escaped text before it, the
\* reference itself, and the escaped text after it.
C4_ReferencesCopied ==
    EscapedPreventing =>
        \A i \in 1..Len(input.s) :
            LET e == ReferenceEnd(input.s, i)
            IN e > 0 =>
                out.s = escapeHTML(Str(SubSeq(input.s, 1, i - 1)), options).s
                        \o SubSeq(input.s, i, e)
                        \o escapeHTML(Str(SubSeq(input.s, e + 1, Len(input.s))), options).s

\* C5: with preventDoubleEscape, on an input that holds no entity reference
\* every character of the escape set is replaced by its entity: the result
\* is the result of the same call with preventDoubleEscape false.
C5_RawCharactersEscaped ==
    (EscapedPreventing /\ \A i \in 1..Len(input.s) : ReferenceEnd(input.s, i) = 0)
        => out = escapeHTML(input, [options EXCEPT !.preventDoubleEscape = FALSE])

\* the effective escape set: (keys of the merged entity map, and extra)
\* without exclude
EffectiveEscapeSet ==
    (Range(baseKeys) \cup {options.map[i][1] : i \in DOMAIN options.map}
        \cup Range(options.extra)) \ Range(options.exclude)

\* C11: when the effective escape set is empty, escapeHTML returns a string
\* input unchanged, with preventDoubleEscape true or false; and the set the
\* code computes is empty only then.
C11_EmptyEscapeSetIdentity ==
    (epc = "escaped" /\ input.t = "string")
        => /\ EffectiveEscapeSet = {} => out = Returned(input.s)
           /\ Range(escapeSet(options)) = EffectiveEscapeSet

\* every default character is excluded, the call does not prevent double
\* escaping, and the text "<&" with a reference after it came back as it was
C11_Witness ==
    /\ epc = "escaped"
    /\ EffectiveEscapeSet = {}
    /\ ~options.preventDoubleEscape
    /\ input = Str(<<"&", "#", "<", "&", ";">>)
    /\ out.s = input.s

\* C17: the output of the default escaper holds no raw `<`, `>`, `"` or `'`,
\* and every `&` of it is the first character of a complete entity reference.
C17_DefaultOutputSafe ==
    (epc \in {"escaped", "again"} /\ options = DefaultOptions /\ input.t = "string")
        => /\ ~out.threw
           /\ \A i \in DOMAIN out.s :
                /\ out.s[i] \notin {"<", ">", "\"", "'"}
                /\ out.s[i] = "&" => ReferenceEnd(out.s, i) > 0

\* the default escaper was given a quote, an apostrophe and an ampersand
C17_Witness ==
    /\ epc = "escaped"
    /\ options = DefaultOptions
    /\ input = Str(<<"\"", "'", "&">>)
    /\ out = Returned(<<"&", "q", "u", "o", "t", ";", "&", "#", "3", "9", ";",
                        "&", "a", "m", "p", ";">>)

-----------------------------------------------------------------------------
(* Properties of validateUsername *)

\* the rule object of the behaviour
Rules == RulesOf(ruleSet)

\* a call on a string that returned
ReturnedForString == vpc = "returned" /\ name.t = "string"

\* v is s without the white space at its ends
IsTrimOf(v, s) ==
    \E i \in 1..Len(s) + 1, j \in 0..Len(s) :
        /\ v = SubSeq(s, i, j)
        /\ \A k \in 1..Len(s) : (k < i \/ k > j) => s[k] = " "
        /\ v = <<>> \/ (v[1] # " " /\ v[Len(v)] # " ")

\* v is what the rules' normalize makes of s
IsNormalizedOf(v, s) ==
    IF Rules.normalize = "trim" THEN IsTrimOf(v, s) ELSE v = s

\* the value is an entry of the whitelist
InWhitelist(v) == Rules.whitelist.given /\ v \in Range(Rules.whitelist.items)

\* C2: the whitelist dominates: a call whose normalized value is an entry of
\* the whitelist returns ok = true and no reasons, whatever the other rules
\* say, and calls no custom validator.
C2_WhitelistDominates ==
    (/\ vpc \in {"returned", "threw"}
     /\ name.t = "string"
     /\ Rules.normalize # "throws"
     /\ Rules.whitelist.given
     /\ \E v \in Range(Rules.whitelist.items) : IsNormalizedOf(v, name.s))
        => /\ vpc = "returned"
           /\ result.ok
           /\ result.reasons = <<>>
           /\ \A k \in DOMAIN calls : calls[k][1] # "custom"

\* "__" is whitelisted in a Set, and blacklisted, too short and too long,
\* starts and ends badly, repeats "_", and a custom validator would throw
C2_Witness ==
    /\ vpc = "returned"
    /\ name = Str(<<"_", "_">>)
    /\ ruleSet = [bounds |-> <<3, 1>>, flags |-> "", lists |-> "set",
                  normalize |-> "none", custom |-> "throwing"]
    /\ result.ok

\* whether re matches s somewhere, whatever its flags and lastIndex
Matches(re, s) == regExpExec([re EXCEPT !.flags = ""], s, 0) >= 0

\* whether ch stands twice in a row in s
Repeats(s, ch) == \E i \in 1..Len(s) - 1 : s[i] = ch /\ s[i + 1] = ch

\* the reasons of the custom validators, in their order
CustomReasonsOf(v) ==
    Concat([i \in DOMAIN Rules.custom |->
        LET res == customCall(Rules.custom[i], v)
        IN IF res.threw THEN <<Reason("custom_validator_error", "")>>
           ELSE IF res.t = "string" /\ res.text # "" THEN <<Reason(res.text, "")>>
           ELSE <<>>])

\* the violated rules of the value v, in the documented order
ViolatedRules(v) ==
    (IF Len(v) < Rules.min THEN <<Reason("too_short", "")>> ELSE <<>>)
    \o (IF Len(v) > Rules.max THEN <<Reason("too_long", "")>> ELSE <<>>)
    \o (IF Rules.allowed.given /\ ~Matches(Rules.allowed, v)
        THEN <<Reason("invalid_chars", "")>> ELSE <<>>)
    \o (IF Rules.startsWith.given /\ ~Matches(Rules.startsWith, v)
        THEN <<Reason("bad_start", "")>> ELSE <<>>)
    \o (IF Rules.endsWith.given /\ ~Matches(Rules.endsWith, v)
        THEN <<Reason("bad_end", "")>> ELSE <<>>)
    \o Concat([i \in DOMAIN Rules.disallow |->
            IF Matches(Rules.disallow[i], v)
            THEN <<Reason("disallowed_pattern:", Rules.disallow[i].source)>> ELSE <<>>])
    \o (IF Rules.noConsecutive.given
        THEN Concat([i \in DOMAIN Rules.noConsecutive.items |->
                IF Repeats(v, Rules.noConsecutive.items[i])
                THEN <<Reason("consecutive:", Rules.noConsecutive.items[i])>> ELSE <<>>])
        ELSE <<>>)
    \o (IF Rules.blacklist.given /\ v \in Range(Rules.blacklist.items)
        THEN <<Reason("blacklisted", "")>> ELSE <<>>)
    \o CustomReasonsOf(v)

\* C3: for a value the whitelist does not match, reasons is exactly the list
\* of the violated rules in the documented order: every rule is evaluated.
C3_ReasonsAreViolatedRules ==
    (ReturnedForString /\ ~InWhitelist(result.value))
        => result.reasons = ViolatedRules(result.value)

\* the result a call on a rule object not used before returns
FreshResult ==
    LET o == validateUsername(name, Rules, FreshLastIndex(Rules.disallow))
    IN [threw |-> o.threw, ok |-> o.ok, reasons |-> o.reasons, value |-> o.value]

\* C6: validation is a pure function of (input, rules): every call returns
\* what the first call with that input on these rules returns, whatever
\* calls were made before it.
C6_PureFunction ==
    vpc \in {"returned", "threw"} => result = FreshResult

\* C7: validateUsername never throws, and a custom validator that throws
\* gives the one reason custom_validator_error in its place, the other
\* custom validators being called all the same.
C7_NeverThrows ==
    /\ vpc # "threw"
    /\ (ReturnedForString /\ ~InWhitelist(result.value))
        => /\ \A i \in DOMAIN Rules.custom :
                \E k \in DOMAIN calls : calls[k] = <<"custom", i, result.value>>
           /\ \E pre \in {SubSeq(result.reasons, 1, n) : n \in 0..Len(result.reasons)} :
                result.reasons = pre \o CustomReasonsOf(result.value)

\* C8: every result has ok exactly when reasons is empty, and a call on a
\* value that is not a string returns ok = false, reasons = [not_a_string],
\* value = "" and calls neither normalize nor a custom validator.
C8_OkIffNoReasons ==
    /\ vpc = "returned" => (result.ok <=> result.reasons = <<>>)
    /\ (vpc \in {"returned", "threw"} /\ name.t # "string")
        => /\ vpc = "returned"
           /\ result = [threw |-> FALSE, ok |-> FALSE,
                        reasons |-> <<Reason("not_a_string", "")>>, value |-> <<>>]
           /\ calls = <<>>

\* a number was validated under rules whose normalize throws and that have
\* custom validators
C8_Witness ==
    /\ vpc = "returned"
    /\ name.t = "number"
    /\ Rules.normalize = "throws"
    /\ Rules.custom # <<>>
    /\ ~result.ok

\* C9: normalize is called once, first, on the input; result.value is the
\* normalized value on every path; the whitelist and the custom validators
\* are given it, and the result is the one the normalized value gets under
\* the same rules without normalize.
C9_ChecksSeeNormalized ==
    (ReturnedForString /\ Rules.normalize # "none")
        => /\ calls # <<>> /\ calls[1] = <<"normalize", name.s>>
           /\ \A k \in DOMAIN calls : k > 1 => calls[k][1] # "normalize"
           /\ IsNormalizedOf(result.value, name.s)
           /\ \A k \in DOMAIN calls :
                calls[k][1] = "custom" => calls[k][3] = result.value
           /\ InWhitelist(result.value) => (result.ok /\ Len(calls) = 1)
           /\ ruleSet.flags \in {"absent", ""} =>
                LET o == validateUsername(Str(result.value),
                                          [Rules EXCEPT !.normalize = "none"],
                                          FreshLastIndex(Rules.disallow))
                IN /\ result.ok = o.ok
                   /\ result.reasons = o.reasons
                   /\ result.value = o.value

\* " a " was trimmed to "a", which the blacklist and a custom validator reject
C9_Witness ==
    /\ vpc = "returned"
    /\ name = Str(<<" ", "a", " ">>)
    /\ result.value = <<"a">>
    /\ Reason("blacklisted", "") \in Range(result.reasons)
    /\ Reason("reserved", "") \in Range(result.reasons)
    /\ Len(calls) = 4

\* C10: for every character ch of noConsecutive, given as an array or as a
\* Set, the reason consecutive:<ch> is in reasons exactly when ch stands
\* twice or more in a row in the value.
C10_ConsecutiveReported ==
    (ReturnedForString /\ ~InWhitelist(result.value) /\ Rules.noConsecutive.given)
        => \A ch \in Range(Rules.noConsecutive.items) :
                Reason("consecutive:", ch) \in Range(result.reasons)
                    <=> Repeats(result.value, ch)

-----------------------------------------------------------------------------
(* Properties of truncate *)

\* C12: a string text of at most maxLength characters is returned unchanged,
\* whatever wordSafe and ellipsis are; a text that is not a string, or a
\* maxLength of 0 or less, gives the empty string.
C12_ShortTextUnchanged ==
    tpc = "done" =>
        /\ (targs.text.t = "string" /\ Len(targs.text.s) <= targs.length)
                => tout = targs.text.s
        /\ (targs.text.t # "string" \/ targs.length <= 0) => tout = <<>>

\* "a " has exactly the two characters asked for and came back with its
\* trailing space, under wordSafe and an ellipsis of its own
C12_Witness ==
    /\ tpc = "done"
    /\ targs = [text |-> Str(<<"a", " ">>), length |-> 2,
                options |-> [wordSafe |-> TRUE, ellipsis |-> <<">">>]]
    /\ tout = <<"a", " ">>

\* v is s without the white space at its end
IsTrimEndOf(v, s) ==
    /\ Len(v) <= Len(s)
    /\ v = SubSeq(s, 1, Len(v))
    /\ \A k \in (Len(v) + 1)..Len(s) : s[k] \in WhiteSpace
    /\ v = <<>> \/ v[Len(v)] \notin WhiteSpace

\* C13: a string text longer than maxLength > 0 gives P + ellipsis: P is the
\* first maxLength characters without their trailing white space or, under
\* wordSafe when one of these characters is a space (the first included),
\* the text before the last such space, without its trailing white space.
C13_LongTextCut ==
    (tpc = "done" /\ targs.text.t = "string"
        /\ targs.length > 0 /\ Len(targs.text.s) > targs.length)
        => LET head == SubSeq(targs.text.s, 1, targs.length)
               spaces == {i \in DOMAIN head : head[i] = " "}
               kept == IF targs.options.wordSafe /\ spaces # {}
                       THEN SubSeq(head, 1,
                                (CHOOSE i \in spaces : \A j \in spaces : j <= i) - 1)
                       ELSE head
           IN \E n \in 0..Len(kept) :
                /\ IsTrimEndOf(SubSeq(kept, 1, n), kept)
                /\ tout = SubSeq(kept, 1, n) \o targs.options.ellipsis

-----------------------------------------------------------------------------
(* Properties of MemoryAdapter *)

\* the last call made on the adapter
Last == history[Len(history)]

\* the last call was incr
IncrDone == history # <<>> /\ Last.op = "incr"

\* the number get and set see at an entry: the number itself, or the
\* number an incr wrapped
SeenNumber(entry) == IF entry.t = "number" THEN entry.n ELSE entry.v.n

RECURSIVE SumOfDeltas(_)
SumOfDeltas(h) == IF h = <<>> THEN 0 ELSE h[1].arg.n + SumOfDeltas(Tail(h))

\* C14: incr is a read-modify-write on the value get and set see: on an
\* absent key it returns delta; on a key that holds the number n, stored by
\* set(key, n) or by an earlier incr, it returns n + delta; a get(key) right
\* after it yields what it returned; and a run of incr calls on a key absent
\* at first returns the sum of the deltas.
C14_IncrReadModifyWrite ==
    /\ IncrDone =>
        /\ before[Last.key] = Missing => Last.ret = Last.arg
        /\ (\/ before[Last.key].t = "number"
            \/ before[Last.key].t = "object" /\ before[Last.key].v.t = "number")
                => Last.ret = Num(SeenNumber(before[Last.key]) + Last.arg.n)
        /\ (\A i \in DOMAIN history :
                history[i].op = "incr" /\ history[i].key = Last.key)
                => Last.ret = Num(SumOfDeltas(history))
    /\ \A i \in 2..Len(history) :
            (/\ history[i].op = "get"
             /\ history[i - 1].op = "incr"
             /\ history[i - 1].key = history[i].key)
                => history[i].ret = history[i - 1].ret

\* whether the call h writes the entry of key
Writes(h, key) ==
    \/ h.op \in {"set", "delete", "incr"} /\ h.key = key
    \/ h.op = "clear"
    \/ h.op = "mset" /\ \E i \in DOMAIN h.arg : h.arg[i][1] = key

\* the positions in history of the incr(key, 1) calls
Incrs(key) ==
    {i \in DOMAIN history :
        history[i].op = "incr" /\ history[i].key = key /\ history[i].arg = Num(1)}

\* C15: every call runs to completion, so under any interleaving of incr,
\* set, delete and mset calls no increment is lost: when the only writes of
\* a key absent at first are N calls incr(key, 1), whatever is called on the
\* other keys in between, they return 1..N in turn and leave the key at N;
\* and every incr that follows an incr of the same key with no write of the
\* key in between returns what that one returned plus its delta.
C15_NoLostIncrement ==
    /\ \A key \in Keys :
          (\A i \in DOMAIN history : Writes(history[i], key) => i \in Incrs(key))
            => /\ \A i \in Incrs(key) :
                    history[i].ret = Num(Cardinality({j \in Incrs(key) : j <= i}))
               /\ Incrs(key) # {} =>
                    (store[key].t = "object"
                        /\ store[key].v = Num(Cardinality(Incrs(key))))
               /\ Incrs(key) = {} => store[key] = Missing
    /\ \A i, j \in DOMAIN history :
          (/\ i < j
           /\ history[i].op = "incr" /\ history[j].op = "incr"
           /\ history[i].key = history[j].key
           /\ \A l \in (i + 1)..(j - 1) : ~Writes(history[l], history[i].key))
            => history[j].ret = Num(history[i].ret.n + history[j].arg.n)

\* three calls incr("k", 1), none awaited, with nothing else: 1, 2 and 3
C15_Witness ==
    /\ Len(history) = 3
    /\ Incrs("k") = {1, 2, 3}
    /\ Last.ret = Num(3)
    /\ store["k"] = Wrapped(Num(3), Null)

\* C18: incr changes only the number of the entry at key: the other keys
\* keep their entries, an entry that expires at e still expires at e, also
\* when the clock advances between the two reads of the time in incr, and
\* an entry without expiry, or an absent key, ends without expiry.
C18_IncrFrameAndExpiry ==
    IncrDone =>
        /\ \A key \in Keys \ {Last.key} : store[key] = before[key]
        /\ store[Last.key].t = "object"
        /\ store[Last.key].e =
                (IF before[Last.key].t = "object" /\ before[Last.key].e.t = "number"
                 THEN before[Last.key].e
                 ELSE Null)

-----------------------------------------------------------------------------
(* Properties of passwordStrength *)

\* the symbols: the characters that are neither letters nor digits
IsSymbol(c) == c \notin Letters \cup Digits

====
